---- MODULE Spec2Model ----
(***************************************************************************)
(* Work-efficient GPU scan and stream compaction                           *)
(* (stream_compaction/efficient.cu).                                       *)
(*                                                                         *)
(* Two specifications share this module:                                   *)
(*   Spec      the host drivers scan() and compact(), one statement group  *)
(*             per action, every kernel launch applied as a whole;         *)
(*   KernSpec  one launch of kernScanInclusive, one thread at a time,      *)
(*             with the __syncthreads() barriers between the steps.        *)
(* Arrays are functions over 0..len-1, as in the source.                   *)
(***************************************************************************)
EXTENDS Integers, Sequences, FiniteSets, TLC

(***************************************************************************)
(* Bounds of the model.                                                    *)
(***************************************************************************)
\* largest n passed to scan / compact
MaxN == 5
\* largest array length a single kernel launch is explored with in KernSpec
MaxKernLen == 4
\* largest of the small values of n the padded length is computed for in
\* PadSpec (next to the values around 2^30 and 2^31 - 1)
MaxPadN == 16

(***************************************************************************)
(* 32-bit signed integers.                                                 *)
(***************************************************************************)
INT_MAX == 2147483647
INT_MIN == -2147483647 - 1

\* a + b of two ints, wrapping around as the device's 32-bit adder does
Add32(a, b) ==
  IF a > 0 /\ b > 0 /\ a > INT_MAX - b
    THEN ((a - INT_MAX) - 1) + ((b - INT_MAX) - 1)
    ELSE IF a < 0 /\ b < 0 /\ a < INT_MIN - b
      THEN ((a + INT_MAX) + 1) + ((b + INT_MAX) + 1)
      ELSE a + b

\* 1 << k
Shl1(k) == IF k <= 30 THEN 2^k ELSE INT_MIN

\* the element values inputs are drawn from
Values == {0, 1, INT_MAX}
\* what a device word that was never written may hold
Garbage == {0, -1}
\* the group capacities (threads per block) the drivers are explored with
BlockSizes == {2, 4}

RECURSIVE ilog2(_)
ilog2(x) == IF x \div 2 = 0 THEN 0 ELSE 1 + ilog2(x \div 2)

ilog2ceil(x) == IF x = 1 THEN 0 ELSE ilog2(x - 1) + 1

\* an array of len copies of v
Fill(len, v) == [k \in 0..(len - 1) |-> v]
\* array accesses; an index outside the array is never produced by the code
\* modelled here (see the Accesses of a thread below)
Rd(a, k) == IF k \in DOMAIN a THEN a[k] ELSE 0
Wr(a, k, v) == IF k \in DOMAIN a THEN [a EXCEPT ![k] = v] ELSE a

(***************************************************************************)
(* kernScanInclusive.  A launch state ks is a record                       *)
(*   idata, odata : the two global arrays,                                 *)
(*   rs           : reduction_sum of every thread.                         *)
(* A thread goes through 2*log2n + 2 steps ("phases"), with a barrier      *)
(* after each but the last:                                                *)
(*   0 .. log2n-1        upsweep,   d = p                                  *)
(*   log2n               capture of the group total                        *)
(*   log2n+1 .. 2*log2n  downsweep, d = 2*log2n - p                        *)
(*   2*log2n+1           exclusive -> inclusive reshape                    *)
(***************************************************************************)
Log2n(kn, bdim) == ilog2ceil(IF kn < bdim THEN kn ELSE bdim)

NumPhases(kn, bdim) == 2 * Log2n(kn, bdim) + 2

\* faulty variant: the last thread of the array only: the tid == bdim - 1 test lost
IsLastThread_ArrayEndOnly(id, kn, bdim) == id = kn - 1

\* tid == bdim - 1 || id == n - 1
IsLastThread(id, kn, bdim) == (id % bdim) = bdim - 1 \/ id = kn - 1

\* faulty variant: the threads of step d - 1 stay active: id % (1 << d) == 0
SweepActive_Stride(id, d) == id % Shl1(d) = 0

\* id % (1 << (d + 1)) == 0
SweepActive(id, d) == id % Shl1(d + 1) = 0

\* faulty variant: the left operand read one slot too far: idata[id + (1 << d)]
UpsweepThread_OffByOne(id, d, ks) ==
  IF SweepActive(id, d)
    THEN [ks EXCEPT !.idata =
            Wr(ks.idata, id + Shl1(d + 1) - 1,
               Add32(Rd(ks.idata, id + Shl1(d + 1) - 1),
                     Rd(ks.idata, id + Shl1(d))))]
    ELSE ks

UpsweepThread(id, d, ks) ==
  IF SweepActive(id, d)
    THEN [ks EXCEPT !.idata =
            Wr(ks.idata, id + Shl1(d + 1) - 1,
               Add32(Rd(ks.idata, id + Shl1(d + 1) - 1),
                     Rd(ks.idata, id + Shl1(d) - 1)))]
    ELSE ks

\* faulty variant: the slot is cleared before it is remembered
CaptureThread_ClearFirst(id, kn, bdim, ks) ==
  IF IsLastThread(id, kn, bdim)
    THEN [ks EXCEPT !.rs = Wr(ks.rs, id, 0),
                    !.idata = Wr(ks.idata, id, 0)]
    ELSE ks

\* faulty variant: the slot is remembered but not cleared to seed the downsweep
CaptureThread_NoClear(id, kn, bdim, ks) ==
  IF IsLastThread(id, kn, bdim)
    THEN [ks EXCEPT !.rs = Wr(ks.rs, id, Rd(ks.idata, id))]
    ELSE ks

CaptureThread(id, kn, bdim, ks) ==
  IF IsLastThread(id, kn, bdim)
    THEN [ks EXCEPT !.rs = Wr(ks.rs, id, Rd(ks.idata, id)),
                    !.idata = Wr(ks.idata, id, 0)]
    ELSE ks

\* faulty variant: the left child does not take its parent's value
DownsweepThread_NoSwap(id, d, ks) ==
  IF SweepActive(id, d)
    THEN LET temp == Rd(ks.idata, id + Shl1(d) - 1)
         IN  [ks EXCEPT !.idata =
                Wr(ks.idata, id + Shl1(d + 1) - 1,
                   Add32(Rd(ks.idata, id + Shl1(d + 1) - 1), temp))]
    ELSE ks

DownsweepThread(id, d, ks) ==
  IF SweepActive(id, d)
    THEN LET temp == Rd(ks.idata, id + Shl1(d) - 1)
             a1   == Wr(ks.idata, id + Shl1(d) - 1,
                        Rd(ks.idata, id + Shl1(d + 1) - 1))
         IN  [ks EXCEPT !.idata =
                Wr(a1, id + Shl1(d + 1) - 1,
                   Add32(Rd(a1, id + Shl1(d + 1) - 1), temp))]
    ELSE ks

\* faulty variant: no shift by one position: odata[id] = idata[id]
ReshapeThread_NoShift(id, kn, bdim, ks) ==
  IF IsLastThread(id, kn, bdim)
    THEN [ks EXCEPT !.odata = Wr(ks.odata, id, ks.rs[id])]
    ELSE [ks EXCEPT !.odata = Wr(ks.odata, id, Rd(ks.idata, id))]

ReshapeThread(id, kn, bdim, ks) ==
  IF IsLastThread(id, kn, bdim)
    THEN [ks EXCEPT !.odata = Wr(ks.odata, id, ks.rs[id])]
    ELSE [ks EXCEPT !.odata = Wr(ks.odata, id, Rd(ks.idata, id + 1))]

\* what thread id does in phase p
ThreadPhase(id, p, kn, bdim, ks) ==
  LET L == Log2n(kn, bdim) IN
  IF p < L THEN UpsweepThread(id, p, ks)
  ELSE IF p = L THEN CaptureThread(id, kn, bdim, ks)
  ELSE IF p <= 2 * L THEN DownsweepThread(id, 2 * L - p, ks)
  ELSE ReshapeThread(id, kn, bdim, ks)

\* the global-memory words thread id reads and writes in phase p, as
\* <<array, index>> pairs
ThreadReads(id, p, kn, bdim) ==
  LET L == Log2n(kn, bdim)
      d == IF p < L THEN p ELSE 2 * L - p
  IN  IF p < L \/ (p > L /\ p <= 2 * L)
        THEN IF SweepActive(id, d)
               THEN {<<"idata", id + Shl1(d) - 1>>,
                     <<"idata", id + Shl1(d + 1) - 1>>}
               ELSE {}
      ELSE IF p = L
        THEN IF IsLastThread(id, kn, bdim) THEN {<<"idata", id>>} ELSE {}
      ELSE IF IsLastThread(id, kn, bdim) THEN {} ELSE {<<"idata", id + 1>>}

ThreadWrites(id, p, kn, bdim) ==
  LET L == Log2n(kn, bdim)
      d == IF p < L THEN p ELSE 2 * L - p
  IN  IF p < L
        THEN IF SweepActive(id, d)
               THEN {<<"idata", id + Shl1(d + 1) - 1>>} ELSE {}
      ELSE IF p = L
        THEN IF IsLastThread(id, kn, bdim) THEN {<<"idata", id>>} ELSE {}
      ELSE IF p <= 2 * L
        THEN IF SweepActive(id, d)
               THEN {<<"idata", id + Shl1(d) - 1>>,
                     <<"idata", id + Shl1(d + 1) - 1>>}
               ELSE {}
      ELSE {<<"odata", id>>}

\* all threads id..kn-1 take phase p, in the order of their ids (the test
\* of ks.rs makes TLC compute ks before it goes on)
RECURSIVE RunThreads(_, _, _, _, _)
RunThreads(id, p, kn, bdim, ks) ==
  IF id >= kn \/ DOMAIN ks.rs = {} THEN ks
  ELSE RunThreads(id + 1, p, kn, bdim, ThreadPhase(id, p, kn, bdim, ks))

\* the phases p, p+1, .. of a launch, each taken by every thread before the
\* next begins
RECURSIVE RunPhases(_, _, _, _)
RunPhases(p, kn, bdim, ks) ==
  IF p >= NumPhases(kn, bdim) \/ DOMAIN ks.rs = {} THEN ks
  ELSE RunPhases(p + 1, kn, bdim, RunThreads(0, p, kn, bdim, ks))

\* a whole launch kernScanInclusive<<<grid, bdim>>>(kn, odata, idata) on an
\* input array a: the record of the two arrays it leaves (thread id writes
\* odata[id], so nothing of what odata held before the launch is left)
kernScanInclusive(kn, bdim, a) ==
  LET ks == RunPhases(0, kn, bdim,
                      [idata |-> a, odata |-> Fill(kn, 0), rs |-> Fill(kn, 0)])
  IN  [odata |-> ks.odata, idata |-> ks.idata]

(***************************************************************************)
(* The kernels of namespace Common (common.h / common.cu), as the design   *)
(* document describes them.                                                *)
(***************************************************************************)
\* number of groups a launch over kn elements needs
GridOf(kn, bdim) == (kn + bdim - 1) \div bdim

\* index of the last element of group g
LastOfGroup(g, kn, bdim) ==
  (IF (g + 1) * bdim < kn THEN (g + 1) * bdim ELSE kn) - 1

\* odata[g] = the last element of group g of idata
kernExtractLastElementPerBlock(kn, bdim, a) ==
  [g \in 0..(GridOf(kn, bdim) - 1) |-> a[LastOfGroup(g, kn, bdim)]]

\* one-position right shift, 0 inserted at position 0
kernShiftToExclusive(kn, a) ==
  [k \in 0..(kn - 1) |-> IF k = 0 THEN 0 ELSE a[k - 1]]

\* odata[k] = idata[k] + block_offset[group of k]
kernAddOffsetPerBlock(kn, bdim, off, a) ==
  [k \in 0..(kn - 1) |-> Add32(a[k], off[k \div bdim])]

\* bools[k] = (idata[k] != 0)
kernMapToBoolean(kn, a) ==
  [k \in 0..(kn - 1) |-> IF a[k] # 0 THEN 1 ELSE 0]

\* the words of odata the scatter writes: odata[indices[k]] = idata[k]
\* for every k with bools[k] == 1
ScatterWrites(kn, a, bools, indices) ==
  {<<indices[k], a[k]>> : k \in {j \in 0..(kn - 1) : bools[j] = 1}}

(***************************************************************************)
(* State.                                                                  *)
(***************************************************************************)
VARIABLES
  op,          \* the entry point called: "scan" or "compact"
  n,           \* its arguments n, idata and the caller's buffer odata
  idata,
  odata,       \* [data, undef]: the words and the set of indices whose
               \* value is indeterminate
  block_size,  \* Common::block_size_efficient
  pc,          \* position of the host thread
  n_pad, num_scans, len, i,   \* the locals of scan / compact
  array_sizes, grid_sizes,
  heap,        \* every buffer the call allocated: id |-> [st, frees, data,
               \* undef]; an id is <<name, level>>
  log,         \* runtime calls made so far, in order
  compact_len, \* the local of compact
  ret,         \* the value compact returned, once it has
  badAccess,   \* a buffer was used while not allocated
  work,        \* the level-0 array as the first in-group scan read it
  ops,         \* the device operations of the two loops, <<kind, level>>,
               \* in the order they were put on the default stream
  \* ---- one launch of kernScanInclusive, thread by thread (KernSpec) ----
  k_n, k_bdim, \* the launch: kernScanInclusive<<<grid, k_bdim>>>(k_n, ..)
  k_in,        \* idata as it was at the launch
  k_st,        \* [idata, odata, rs]: the arrays and every reduction_sum
  tpc,         \* thread id |-> the phase it executes next
  waiting,     \* the threads standing at __syncthreads()
  acc_rd, acc_wr,  \* thread id |-> the words it read / wrote since the
                   \* last barrier of its group
  exitedArrive \* whether the hardware counts an exited thread as arrived
               \* at the barriers of its group

hostVars == <<op, n, idata, odata, block_size, pc, n_pad, num_scans, len, i,
              array_sizes, grid_sizes, heap, log, compact_len, ret, badAccess,
              work, ops>>
kernVars == <<k_n, k_bdim, k_in, k_st, tpc, waiting, acc_rd, acc_wr,
              exitedArrive>>
vars == <<hostVars, kernVars>>

(***************************************************************************)
(* The heap: cudaMalloc / malloc / cudaFree / free.                        *)
(***************************************************************************)
\* a fresh allocation of len ints: nothing in it has been written yet
NewBuf(l) == [st |-> "live", frees |-> 0, data |-> Fill(l, 0),
              undef |-> 0..(l - 1)]

Live(h, id) == id \in DOMAIN h /\ h[id].st = "live"

AllLive(h, ids) == \A id \in ids : Live(h, id)

\* cudaFree / free of one buffer
Release(h, id) ==
  IF id \in DOMAIN h
    THEN [h EXCEPT ![id].st = "freed", ![id].frees = @ + 1]
    ELSE h

RECURSIVE ReleaseAll(_, _)
ReleaseAll(h, ids) ==
  IF ids = <<>> THEN h ELSE ReleaseAll(Release(h, Head(ids)), Tail(ids))

\* the whole of buffer id becomes the array a
Store(h, id, a) ==
  IF id \in DOMAIN h THEN [h EXCEPT ![id].data = a, ![id].undef = {}] ELSE h

\* cudaMemcpy of the first cnt ints of array a (whose indeterminate words
\* are u) to the start of buffer id
CopyInto(h, id, a, u, cnt) ==
  IF id \in DOMAIN h
    THEN [h EXCEPT
           ![id].data = [k \in DOMAIN h[id].data |->
                           IF k < cnt /\ k \in DOMAIN a THEN a[k]
                           ELSE h[id].data[k]],
           ![id].undef = {k \in h[id].undef : k >= cnt}
                           \cup {k \in u : k < cnt}]
    ELSE h

\* the array a device read finds in a buffer whose never-written words hold g
Resolve(b, g) ==
  [k \in DOMAIN b.data |-> IF k \in b.undef THEN g[k] ELSE b.data[k]]

\* the names of the per-level device arrays of the two entry points
InName(o)  == IF o = "scan" THEN "dev_idata" ELSE "dev_iIndices"
OutName(o) == IF o = "scan" THEN "dev_odata" ELSE "dev_oIndices"
LevelNames(o) == {InName(o), OutName(o), "dev_buffer"}

\* the host arrays of pointers and sizes, in the order they are freed
HostArrays(o) ==
  << <<"grid_sizes", 0>>, <<"array_sizes", 0>>, <<InName(o) \o "[]", 0>>,
     <<OutName(o) \o "[]", 0>>, <<"dev_buffer[]", 0>> >>

\* checkCUDAError(msg): fatal when a runtime call before it failed
checkCUDAError(failed, next) == IF failed THEN "aborted" ELSE next

(***************************************************************************)
(* Initial state: a call of scan or compact.                               *)
(***************************************************************************)
HostIdle ==
  /\ op = "none" /\ n = 0 /\ idata = <<>> /\ block_size = 0
  /\ odata = [data |-> <<>>, undef |-> {}]
  /\ pc = "idle" /\ n_pad = 0 /\ num_scans = 0 /\ len = 0 /\ i = 0
  /\ array_sizes = <<>> /\ grid_sizes = <<>> /\ heap = <<>> /\ log = <<>>
  /\ compact_len = 0 /\ ret = <<>> /\ badAccess = FALSE /\ work = <<>>
  /\ ops = <<>>

KernIdle ==
  /\ k_n = 0 /\ k_bdim = 0 /\ k_in = <<>>
  /\ k_st = [idata |-> <<>>, odata |-> <<>>, rs |-> <<>>]
  /\ tpc = <<>> /\ waiting = {} /\ acc_rd = <<>> /\ acc_wr = <<>>
  /\ exitedArrive = TRUE

Init ==
  /\ op \in {"scan", "compact"}
  /\ n \in (-1)..MaxN
  /\ idata \in [0..(n - 1) -> Values]
  /\ odata = [data |-> Fill(n, 0), undef |-> 0..(n - 1)]
  /\ block_size \in BlockSizes
  /\ pc = "call"
  /\ n_pad = 0 /\ num_scans = 0 /\ len = 0 /\ i = 0
  /\ array_sizes = <<>> /\ grid_sizes = <<>>
  /\ heap = <<>> /\ log = <<>> /\ compact_len = 0 /\ ret = <<>>
  /\ badAccess = FALSE /\ work = <<>> /\ ops = <<>>
  /\ KernIdle

(***************************************************************************)
(* Statements scan and compact share.                                      *)
(***************************************************************************)
\* if (n <= 0) return
DegenerateN(m) == m <= 0

\* faulty variant: the length is not rounded up
NPad_NoPad(m) == m

\* const int n_pad = 1 << (ilog2ceil(n))
NPad(m) == Shl1(ilog2ceil(m))

\* faulty variant: the count stops while the last level still has two groups
CountLevels_StopsEarly ==
  /\ pc = "count"
  /\ IF GridOf(len, block_size) > 2
       THEN /\ num_scans' = num_scans + 1
            /\ len' = GridOf(len, block_size)
            /\ pc' = "count"
       ELSE /\ pc' = (IF op = "scan" THEN "hostmalloc" ELSE "devmalloc")
            /\ UNCHANGED <<num_scans, len>>
  /\ UNCHANGED <<ops, op, n, idata, odata, block_size, n_pad, i, array_sizes,
                 grid_sizes, heap, log, compact_len, ret, badAccess, work, kernVars>>

\* one test (and, when it holds, one body) of
\* while ((len + block_size - 1) / block_size > 1)
CountLevels ==
  /\ pc = "count"
  /\ IF GridOf(len, block_size) > 1
       THEN /\ num_scans' = num_scans + 1
            /\ len' = GridOf(len, block_size)
            /\ pc' = "count"
       ELSE /\ pc' = (IF op = "scan" THEN "hostmalloc" ELSE "devmalloc")
            /\ UNCHANGED <<num_scans, len>>
  /\ UNCHANGED <<ops, op, n, idata, odata, block_size, n_pad, i, array_sizes,
                 grid_sizes, heap, log, compact_len, ret, badAccess, work, kernVars>>

\* the five malloc calls and len = n_pad
HostMalloc ==
  /\ pc = "hostmalloc"
  /\ heap' = heap @@ [id \in {HostArrays(op)[j] : j \in 1..5} |-> NewBuf(0)]
  /\ len' = n_pad
  /\ i' = 0
  /\ pc' = "alloc"
  /\ UNCHANGED <<ops, op, n, idata, odata, block_size, n_pad, num_scans,
                 array_sizes, grid_sizes, log, compact_len, ret, badAccess, work, kernVars>>

\* one iteration of the allocation loop: three cudaMalloc calls, each of
\* which may fail, checkCUDAError, and the level's two descriptors
AllocLevel ==
  /\ pc = "alloc"
  /\ \E ok \in SUBSET LevelNames(op) :
       /\ heap' = heap @@ [id \in {<<b, i>> : b \in ok} |-> NewBuf(len)]
       /\ pc' = checkCUDAError(ok # LevelNames(op),
                               IF i + 1 < num_scans THEN "alloc"
                               ELSE IF op = "scan" THEN "copy_in"
                               ELSE "start")
       /\ IF ok = LevelNames(op)
            THEN /\ array_sizes' = array_sizes @@ (i :> len)
                 /\ len' = GridOf(len, block_size)
                 /\ grid_sizes' = grid_sizes @@ (i :> GridOf(len, block_size))
                 /\ i' = i + 1
            ELSE UNCHANGED <<array_sizes, len, grid_sizes, i>>
  /\ badAccess' = (badAccess \/ ~AllLive(heap, {HostArrays(op)[j] : j \in 1..5}))
  /\ UNCHANGED <<ops, op, n, idata, odata, block_size, n_pad, num_scans, log, compact_len, ret,
                 work, kernVars>>

\* timer().startGpuTimer()
StartTimer ==
  /\ pc = "start"
  /\ log' = Append(log, "start")
  /\ i' = 0
  /\ pc' = (IF op = "scan" THEN "up" ELSE "map")
  /\ UNCHANGED <<ops, op, n, idata, odata, block_size, n_pad, num_scans, len,
                 array_sizes, grid_sizes, heap, compact_len, ret, badAccess, work, kernVars>>

\* one iteration of the upward loop at level i: the in-group scan, the copy
\* of the scratch buffer back over the level's input and, below the top
\* level, the extraction of the group totals into the next level's input.
\* A launch on a level shorter than the group has threads that leave the
\* kernel without reaching its barriers; the launch then completes or never
\* does.
UpLevel ==
  /\ pc = "up"
  /\ LET in  == <<InName(op), i>>
         buf == <<"dev_buffer", i>>
         nxt == <<InName(op), i + 1>>
     IN
     /\ badAccess' = (badAccess \/ ~AllLive(heap, {in, buf})
                        \/ (i < num_scans - 1 /\ ~Live(heap, nxt)))
     /\ \/ \E g \in [heap[in].undef -> Garbage] :
             LET a  == Resolve(heap[in], g)
                 r  == kernScanInclusive(array_sizes[i], block_size, a)
                 h1 == Store(Store(heap, buf, r.odata), in, r.odata)
             IN
             /\ work' = (IF i = 0 THEN a ELSE work)
             /\ IF i < num_scans - 1
                  THEN /\ heap' = Store(h1, nxt,
                                    kernExtractLastElementPerBlock(
                                      array_sizes[i], block_size, r.odata))
                       /\ log' = log \o <<"kernel", "D2D", "kernel">>
                       /\ ops' = ops \o << <<"scan", i>>, <<"copyback", i>>,
                                            <<"extract", i>> >>
                       /\ i' = i + 1
                       /\ pc' = "up"
                  ELSE /\ heap' = h1
                       /\ log' = log \o <<"kernel", "D2D">>
                       /\ ops' = ops \o << <<"scan", i>>, <<"copyback", i>> >>
                       /\ i' = num_scans - 1
                       /\ pc' = "down"
        \/ /\ array_sizes[i] < block_size
           /\ pc' = "hung"
           /\ log' = Append(log, "kernel")
           /\ ops' = Append(ops, <<"scan", i>>)
           /\ UNCHANGED <<heap, i, work>>
  /\ UNCHANGED <<op, n, idata, odata, block_size, n_pad, num_scans, len,
                 array_sizes, grid_sizes, compact_len, ret, kernVars>>

\* faulty variant: the offsets of level i are added to the level below before
\* level i has been shifted to its exclusive form
DownLevel_AddFirst ==
  /\ pc = "down"
  /\ LET out == <<OutName(op), i>>
         buf == <<"dev_buffer", i>>
         x   == kernShiftToExclusive(array_sizes[i], heap[buf].data)
         old == heap[out].data
         h1  == Store(heap, out, x)
     IN
     /\ badAccess' = (badAccess \/ ~AllLive(heap, {out, buf})
                        \/ (i >= 1 /\ ~AllLive(heap, {<<"dev_buffer", i - 1>>,
                                                      <<InName(op), i - 1>>})))
     /\ IF i >= 1
          THEN /\ heap' = Store(h1, <<"dev_buffer", i - 1>>,
                            kernAddOffsetPerBlock(
                              array_sizes[i - 1], block_size, old,
                              heap[<<InName(op), i - 1>>].data))
               /\ log' = log \o <<"kernel", "kernel">>
               /\ ops' = ops \o << <<"add", i - 1>>, <<"shift", i>> >>
               /\ i' = i - 1
               /\ pc' = "down"
          ELSE /\ heap' = h1
               /\ log' = Append(log, "kernel")
               /\ ops' = Append(ops, <<"shift", i>>)
               /\ i' = i - 1
               /\ pc' = (IF op = "scan" THEN "sync" ELSE "scatter")
  /\ UNCHANGED <<op, n, idata, odata, block_size, n_pad, num_scans, len,
                 array_sizes, grid_sizes, compact_len, ret, work, kernVars>>

\* one iteration of the downward loop at level i: the shift to the
\* exclusive form and, above level 0, the addition of the level's
\* exclusive values to the groups of the level below
DownLevel ==
  /\ pc = "down"
  /\ LET out == <<OutName(op), i>>
         buf == <<"dev_buffer", i>>
         x   == kernShiftToExclusive(array_sizes[i], heap[buf].data)
         h1  == Store(heap, out, x)
     IN
     /\ badAccess' = (badAccess \/ ~AllLive(heap, {out, buf})
                        \/ (i >= 1 /\ ~AllLive(heap, {<<"dev_buffer", i - 1>>,
                                                      <<InName(op), i - 1>>})))
     /\ IF i >= 1
          THEN /\ heap' = Store(h1, <<"dev_buffer", i - 1>>,
                            kernAddOffsetPerBlock(
                              array_sizes[i - 1], block_size, x,
                              heap[<<InName(op), i - 1>>].data))
               /\ log' = log \o <<"kernel", "kernel">>
               /\ ops' = ops \o << <<"shift", i>>, <<"add", i - 1>> >>
               /\ i' = i - 1
               /\ pc' = "down"
          ELSE /\ heap' = h1
               /\ log' = Append(log, "kernel")
               /\ ops' = Append(ops, <<"shift", i>>)
               /\ i' = i - 1
               /\ pc' = (IF op = "scan" THEN "sync" ELSE "scatter")
  /\ UNCHANGED <<op, n, idata, odata, block_size, n_pad, num_scans, len,
                 array_sizes, grid_sizes, compact_len, ret, work, kernVars>>

\* faulty variant: the host does not wait for the device before it stops the timer
DeviceSync_Skipped ==
  /\ pc = "sync"
  /\ pc' = "stop"
  /\ UNCHANGED <<ops, op, n, idata, odata, block_size, n_pad, num_scans, len, i,
                 array_sizes, grid_sizes, heap, log, compact_len, ret,
                 badAccess, work, kernVars>>

\* cudaDeviceSynchronize()
DeviceSync ==
  /\ pc = "sync"
  /\ log' = Append(log, "sync")
  /\ pc' = "stop"
  /\ UNCHANGED <<ops, op, n, idata, odata, block_size, n_pad, num_scans, len, i,
                 array_sizes, grid_sizes, heap, compact_len, ret, badAccess, work, kernVars>>

\* timer().endGpuTimer()
EndTimer ==
  /\ pc = "stop"
  /\ log' = Append(log, "stop")
  /\ pc' = "copy_out"
  /\ UNCHANGED <<ops, op, n, idata, odata, block_size, n_pad, num_scans, len, i,
                 array_sizes, grid_sizes, heap, compact_len, ret, badAccess, work, kernVars>>

\* faulty variant: the scratch buffers are left out of the final loop
RECURSIVE LevelBufs_NoScratch(_, _, _)
LevelBufs_NoScratch(o, lv, cnt) ==
  IF lv >= cnt THEN <<>>
  ELSE << <<InName(o), lv>>, <<OutName(o), lv>> >>
         \o LevelBufs_NoScratch(o, lv + 1, cnt)

\* the ids of the per-level device buffers, level by level, in the order
\* the final loop frees them
RECURSIVE LevelBufs(_, _, _)
LevelBufs(o, lv, cnt) ==
  IF lv >= cnt THEN <<>>
  ELSE << <<InName(o), lv>>, <<OutName(o), lv>>, <<"dev_buffer", lv>> >>
         \o LevelBufs(o, lv + 1, cnt)

(***************************************************************************)
(* scan                                                                    *)
(***************************************************************************)
ScanEnter ==
  /\ pc = "call" /\ op = "scan"
  /\ IF DegenerateN(n)
       THEN /\ pc' = "done"
            /\ UNCHANGED <<n_pad, num_scans, len>>
       ELSE /\ n_pad' = NPad(n)
            /\ num_scans' = 1
            /\ len' = NPad(n)
            /\ pc' = "count"
  /\ UNCHANGED <<ops, op, n, idata, odata, block_size, i, array_sizes, grid_sizes,
                 heap, log, compact_len, ret, badAccess, work, kernVars>>

\* cudaMemcpy(dev_idata[0], idata, n * sizeof(int), cudaMemcpyHostToDevice)
ScanCopyIn ==
  /\ pc = "copy_in" /\ op = "scan"
  /\ heap' = CopyInto(heap, <<"dev_idata", 0>>, idata, {}, n)
  /\ badAccess' = (badAccess \/ ~Live(heap, <<"dev_idata", 0>>))
  /\ log' = Append(log, "H2D")
  /\ pc' = "start"
  /\ UNCHANGED <<ops, op, n, idata, odata, block_size, n_pad, num_scans, len, i,
                 array_sizes, grid_sizes, compact_len, ret, work, kernVars>>

\* faulty variant: the result is copied from the scratch buffer dev_buffer[0]
ScanCopyOut_FromScratch ==
  /\ pc = "copy_out" /\ op = "scan"
  /\ LET b == heap[<<"dev_buffer", 0>>] IN
     odata' = [data  |-> [k \in 0..(n - 1) |-> b.data[k]],
               undef |-> {k \in b.undef : k < n}]
  /\ badAccess' = (badAccess \/ ~Live(heap, <<"dev_buffer", 0>>))
  /\ log' = Append(log, "D2H")
  /\ pc' = "free"
  /\ UNCHANGED <<ops, op, n, idata, block_size, n_pad, num_scans, len, i,
                 array_sizes, grid_sizes, heap, compact_len, ret, work,
                 kernVars>>

\* cudaMemcpy(odata, dev_odata[0], n * sizeof(int), cudaMemcpyDeviceToHost)
ScanCopyOut ==
  /\ pc = "copy_out" /\ op = "scan"
  /\ LET b == heap[<<"dev_odata", 0>>] IN
     odata' = [data  |-> [k \in 0..(n - 1) |-> b.data[k]],
               undef |-> {k \in b.undef : k < n}]
  /\ badAccess' = (badAccess \/ ~Live(heap, <<"dev_odata", 0>>))
  /\ log' = Append(log, "D2H")
  /\ pc' = "free"
  /\ UNCHANGED <<ops, op, n, idata, block_size, n_pad, num_scans, len, i,
                 array_sizes, grid_sizes, heap, compact_len, ret, work, kernVars>>

\* the cudaFree loop and the five free calls
ScanFree ==
  /\ pc = "free" /\ op = "scan"
  /\ heap' = ReleaseAll(heap, LevelBufs(op, 0, num_scans) \o HostArrays(op))
  /\ i' = num_scans
  /\ pc' = "done"
  /\ UNCHANGED <<ops, op, n, idata, odata, block_size, n_pad, num_scans, len,
                 array_sizes, grid_sizes, log, compact_len, ret, badAccess, work, kernVars>>

(***************************************************************************)
(* compact                                                                 *)
(***************************************************************************)
\* faulty variant: a degenerate call reports an empty result: return 0
DegenerateResult_Zero(m) == 0

\* what compact returns for a degenerate n: return n
DegenerateResult(m) == m

CompactEnter ==
  /\ pc = "call" /\ op = "compact"
  /\ IF DegenerateN(n)
       THEN /\ ret' = <<DegenerateResult(n)>>
            /\ pc' = "done"
            /\ UNCHANGED <<n_pad, num_scans, len>>
       ELSE /\ n_pad' = NPad(n)
            /\ num_scans' = 1
            /\ len' = NPad(n)
            /\ pc' = "count"
            /\ UNCHANGED ret
  /\ UNCHANGED <<ops, op, n, idata, odata, block_size, i, array_sizes, grid_sizes,
                 heap, log, compact_len, badAccess, work, kernVars>>

\* the three compact-wide device buffers, in the order they are freed
CompactBufs == << <<"dev_bools", 0>>, <<"dev_idata", 0>>, <<"dev_odata", 0>> >>

\* cudaMalloc of dev_idata, dev_odata and dev_bools, each of which may
\* fail, and checkCUDAError
CompactDevMalloc ==
  /\ pc = "devmalloc" /\ op = "compact"
  /\ \E ok \in SUBSET {CompactBufs[j] : j \in 1..3} :
       /\ heap' = heap @@ [id \in ok |-> NewBuf(n_pad)]
       /\ pc' = checkCUDAError(ok # {CompactBufs[j] : j \in 1..3}, "copy_in")
  /\ UNCHANGED <<ops, op, n, idata, odata, block_size, n_pad, num_scans, len, i,
                 array_sizes, grid_sizes, log, compact_len, ret, badAccess,
                 work, kernVars>>

\* cudaMemset(dev_idata, 0, n_pad * sizeof(int)) and
\* cudaMemcpy(dev_idata, idata, n * sizeof(int), cudaMemcpyHostToDevice)
CompactCopyIn ==
  /\ pc = "copy_in" /\ op = "compact"
  /\ heap' = CopyInto(Store(heap, <<"dev_idata", 0>>, Fill(n_pad, 0)),
                      <<"dev_idata", 0>>, idata, {}, n)
  /\ badAccess' = (badAccess \/ ~Live(heap, <<"dev_idata", 0>>))
  /\ log' = log \o <<"memset", "H2D">>
  /\ pc' = "hostmalloc"
  /\ UNCHANGED <<ops, op, n, idata, odata, block_size, n_pad, num_scans, len, i,
                 array_sizes, grid_sizes, compact_len, ret, work, kernVars>>

\* kernMapToBoolean over the padded array and the copy of the mask into
\* dev_iIndices[0]
CompactMap ==
  /\ pc = "map" /\ op = "compact"
  /\ \E g \in [heap[<<"dev_idata", 0>>].undef -> Garbage] :
       LET bools == kernMapToBoolean(n_pad,
                                     Resolve(heap[<<"dev_idata", 0>>], g))
       IN  heap' = Store(Store(heap, <<"dev_bools", 0>>, bools),
                         <<"dev_iIndices", 0>>, bools)
  /\ badAccess' = (badAccess \/ ~AllLive(heap, {<<"dev_idata", 0>>,
                      <<"dev_bools", 0>>, <<"dev_iIndices", 0>>}))
  /\ log' = log \o <<"kernel", "D2D">>
  /\ pc' = "up"
  /\ UNCHANGED <<ops, op, n, idata, odata, block_size, n_pad, num_scans, len, i,
                 array_sizes, grid_sizes, compact_len, ret, work, kernVars>>

\* kernScatter: every kept element goes to its destination index; were two
\* elements sent to one index, either could be the one that stays
CompactScatter ==
  /\ pc = "scatter" /\ op = "compact"
  /\ LET W == ScatterWrites(n_pad, heap[<<"dev_idata", 0>>].data,
                            heap[<<"dev_bools", 0>>].data,
                            heap[<<"dev_oIndices", 0>>].data)
         T == {w[1] : w \in W}
         b == heap[<<"dev_odata", 0>>]
     IN  \E f \in [T -> {w[2] : w \in W}] :
            /\ \A t \in T : <<t, f[t]>> \in W
            /\ heap' = [heap EXCEPT
                 ![<<"dev_odata", 0>>].data =
                    [k \in DOMAIN b.data |-> IF k \in T THEN f[k]
                                             ELSE b.data[k]],
                 ![<<"dev_odata", 0>>].undef = b.undef \ T]
  /\ badAccess' = (badAccess \/ ~AllLive(heap, {<<"dev_idata", 0>>,
                      <<"dev_bools", 0>>, <<"dev_oIndices", 0>>,
                      <<"dev_odata", 0>>}))
  /\ log' = Append(log, "kernel")
  /\ pc' = "sync"
  /\ UNCHANGED <<ops, op, n, idata, odata, block_size, n_pad, num_scans, len, i,
                 array_sizes, grid_sizes, compact_len, ret, work, kernVars>>

\* cudaMemcpy(odata, dev_odata, n * sizeof(int), cudaMemcpyDeviceToHost)
CompactCopyOut ==
  /\ pc = "copy_out" /\ op = "compact"
  /\ LET b == heap[<<"dev_odata", 0>>] IN
     odata' = [data  |-> [k \in 0..(n - 1) |-> b.data[k]],
               undef |-> {k \in b.undef : k < n}]
  /\ badAccess' = (badAccess \/ ~Live(heap, <<"dev_odata", 0>>))
  /\ log' = Append(log, "D2H")
  /\ pc' = "count_kept"
  /\ UNCHANGED <<ops, op, n, idata, block_size, n_pad, num_scans, len, i,
                 array_sizes, grid_sizes, heap, compact_len, ret, work,
                 kernVars>>

\* faulty variant: the last element's own flag is forgotten
CompactLen_IndexOnly(indices, bools, m) == indices[m - 1]

\* int compact_len = indices[n - 1] + bools[n - 1]
CompactLen(indices, bools, m) == Add32(indices[m - 1], bools[m - 1])

\* malloc of indices and bools, their two copies from the device and
\* compact_len
CompactCount ==
  /\ pc = "count_kept" /\ op = "compact"
  /\ LET h1 == heap @@ [id \in {<<"indices", 0>>, <<"bools", 0>>} |->
                          NewBuf(n)]
         h2 == CopyInto(h1, <<"indices", 0>>, heap[<<"dev_oIndices", 0>>].data,
                        heap[<<"dev_oIndices", 0>>].undef, n)
         h3 == CopyInto(h2, <<"bools", 0>>, heap[<<"dev_bools", 0>>].data,
                        heap[<<"dev_bools", 0>>].undef, n)
     IN  /\ heap' = h3
         /\ \E g \in [h3[<<"indices", 0>>].undef \cup h3[<<"bools", 0>>].undef
                        -> Garbage] :
              compact_len' = CompactLen(Resolve(h3[<<"indices", 0>>], g),
                                        Resolve(h3[<<"bools", 0>>], g), n)
  /\ badAccess' = (badAccess \/ ~AllLive(heap, {<<"dev_oIndices", 0>>,
                                                <<"dev_bools", 0>>}))
  /\ log' = log \o <<"D2H", "D2H">>
  /\ pc' = "free"
  /\ UNCHANGED <<ops, op, n, idata, odata, block_size, n_pad, num_scans, len, i,
                 array_sizes, grid_sizes, ret, work, kernVars>>

\* every free and cudaFree of compact, and return compact_len
CompactFree ==
  /\ pc = "free" /\ op = "compact"
  /\ heap' = ReleaseAll(heap, << <<"indices", 0>>, <<"bools", 0>> >>
                                \o LevelBufs(op, 0, num_scans)
                                \o CompactBufs \o HostArrays(op))
  /\ i' = num_scans
  /\ ret' = <<compact_len>>
  /\ pc' = "done"
  /\ UNCHANGED <<ops, op, n, idata, odata, block_size, n_pad, num_scans, len,
                 array_sizes, grid_sizes, log, compact_len, badAccess, work,
                 kernVars>>

Next ==
  \/ ScanEnter
  \/ CompactEnter
  \/ CountLevels
  \/ CompactDevMalloc
  \/ CompactCopyIn
  \/ HostMalloc
  \/ AllocLevel
  \/ ScanCopyIn
  \/ StartTimer
  \/ CompactMap
  \/ UpLevel
  \/ DownLevel
  \/ CompactScatter
  \/ DeviceSync
  \/ EndTimer
  \/ ScanCopyOut
  \/ ScanFree
  \/ CompactCopyOut
  \/ CompactCount
  \/ CompactFree

Spec == Init /\ [][Next]_vars

(***************************************************************************)
(* Properties of the host drivers (checked under Spec).                    *)
(***************************************************************************)
\* the nonzero elements of a[from..m-1], in their order, as a sequence
RECURSIVE Kept(_, _, _)
Kept(a, from, m) ==
  IF from >= m THEN <<>>
  ELSE (IF a[from] # 0 THEN <<a[from]>> ELSE <<>>) \o Kept(a, from + 1, m)

Returned == pc = "done"

\* C1: for every n >= 1 scan leaves the exclusive prefix sum of the input in
\* odata: odata[0] = 0 and odata[k] = odata[k-1] + idata[k-1] (32-bit
\* addition) for 1 <= k < n
ScanIsExclusivePrefixSum ==
  (Returned /\ op = "scan" /\ n >= 1) =>
    /\ odata.undef = {}
    /\ odata.data[0] = 0
    /\ \A k \in 1..(n - 1) :
         odata.data[k] = Add32(odata.data[k - 1], idata[k - 1])

\* C2: for every n >= 1 compact returns the number of nonzero elements of
\* idata and odata[0..keptCount) holds exactly those elements, in order
CompactKeepsNonzeroInOrder ==
  (Returned /\ op = "compact" /\ n >= 1) =>
    LET kept == Kept(idata, 0, n) IN
    /\ ret = <<Len(kept)>>
    /\ \A k \in 0..(Len(kept) - 1) :
         k \notin odata.undef /\ odata.data[k] = kept[k + 1]

\* the single-level algorithm on a whole array a of length l: one in-group
\* scan by a group of l threads, then the shift to the exclusive form
SingleLevelScan(l, a) ==
  kernShiftToExclusive(l, kernScanInclusive(l, l, a).odata)

\* the first m elements of array a
Prefix(a, m) == [k \in 0..(m - 1) |-> a[k]]

\* array a of length m, zero-extended to length l
ZeroExtend(a, m, l) == [k \in 0..(l - 1) |-> IF k < m THEN a[k] ELSE 0]

\* the exclusive scan the level loops of scan compute of a whole level a of
\* length l: in-group scan, extraction of the group totals, the same for the
\* level above while it has more than one group, offset addition, shift
RECURSIVE ScanLevels(_, _, _)
ScanLevels(a, l, bdim) ==
  LET r == kernScanInclusive(l, bdim, a).odata IN
  IF GridOf(l, bdim) > 1
    THEN kernShiftToExclusive(l,
           kernAddOffsetPerBlock(l, bdim,
             ScanLevels(kernExtractLastElementPerBlock(l, bdim, r),
                        GridOf(l, bdim), bdim),
             r))
    ELSE kernShiftToExclusive(l, r)

\* how often event e occurs in the log
RECURSIVE Count(_, _)
Count(lg, e) ==
  IF lg = <<>> THEN 0
  ELSE (IF Head(lg) = e THEN 1 ELSE 0) + Count(Tail(lg), e)

Positions(e) == {j \in 1..Len(log) : log[j] = e}

\* the downward pass has just produced the level-0 exclusive array
ScanPassDone == pc \in {"sync", "scatter"}

\* C3: with two or more levels the scan equals, element for element, the
\* single-level algorithm run on the same level-0 array by one group as
\* large as the padded length
MultiLevelEqualsSingleLevel ==
  /\ (ScanPassDone /\ num_scans >= 2) =>
       heap[<<OutName(op), 0>>].data = SingleLevelScan(n_pad, work)
  /\ (Returned /\ op = "scan" /\ num_scans >= 2) =>
       odata.data = Prefix(SingleLevelScan(n_pad, work), n)

\* C4: for n not a power of two, scan(n, x) is the first n elements of the
\* scan of x zero-extended to nPad elements
PaddingIsTruncation ==
  (Returned /\ op = "scan" /\ n >= 1 /\ n # n_pad) =>
    /\ odata.undef = {}
    /\ odata.data =
         Prefix(ScanLevels(ZeroExtend(idata, n, n_pad), n_pad, block_size), n)

\* C5: a call with n <= 0 returns without an allocation, a runtime call or a
\* write to odata, and compact returns n itself
DegenerateCallDoesNothing ==
  (n <= 0) =>
    /\ pc \in {"call", "done"}
    /\ heap = <<>> /\ log = <<>>
    /\ odata = [data |-> <<>>, undef |-> {}]
    /\ Returned => ret = (IF op = "compact" THEN <<n>> ELSE <<>>)

\* every kernel launch lies after the start of the timer; the timer is
\* stopped only after a cudaDeviceSynchronize() that follows every launch
TimerBrackets ==
  /\ Count(log, "start") <= 1 /\ Count(log, "stop") <= 1
  /\ \A k \in Positions("kernel") :
       /\ \E s \in Positions("start") : s < k
       /\ \A e \in Positions("stop") : k < e
  /\ \A e \in Positions("stop") :
       \E y \in Positions("sync") :
         /\ y < e
         /\ \A k \in Positions("kernel") : k < y
         /\ \E s \in Positions("start") : s < y

\* C6 as stated: in every invocation, for every n, one start and one stop
TimerOncePerInvocation ==
  /\ TimerBrackets
  /\ Returned => (Count(log, "start") = 1 /\ Count(log, "stop") = 1)

\* C6 as amended: every call with n >= 1 that returns has started and
\* stopped the timer exactly once, around all of its launches and after the
\* device drained; a call with n <= 0 never touches the timer
TimerOncePerNonDegenerateCall ==
  /\ TimerBrackets
  /\ (Returned /\ n >= 1) =>
       (Count(log, "start") = 1 /\ Count(log, "stop") = 1)
  /\ (n <= 0) => (Count(log, "start") = 0 /\ Count(log, "stop") = 0)

\* C7: when the call returns, every buffer it allocated has been released
\* exactly once, and no buffer was used while not allocated
ReturnReleasesEverything ==
  /\ ~badAccess
  /\ \A id \in DOMAIN heap : heap[id].frees <= 1
  /\ Returned =>
       \A id \in DOMAIN heap : heap[id].st = "freed" /\ heap[id].frees = 1

\* C8: after a failed device allocation no kernel is launched, nothing is
\* written to odata, and every buffer allocated before is released
AllocFailureReleasesAll ==
  (pc = "aborted") =>
    /\ Count(log, "kernel") = 0
    /\ odata.undef = 0..(n - 1)
    /\ \A id \in DOMAIN heap : heap[id].st = "freed"

(***************************************************************************)
(* States in which the cases of the properties above occur.                *)
(***************************************************************************)
\* a three-level scan of five elements whose sums wrapped around
ScanWitness ==
  /\ Returned /\ op = "scan" /\ n = 5 /\ num_scans = 3
  /\ idata[0] = INT_MAX /\ idata[1] = 1 /\ odata.data[2] = INT_MIN

\* a compaction over two levels that dropped the first and the last element
CompactWitness ==
  /\ Returned /\ op = "compact" /\ n = 5 /\ num_scans = 2
  /\ idata[0] = 0 /\ idata[4] = 0 /\ ret = <<3>>
  /\ odata.data[0] = INT_MAX /\ odata.data[2] = 1

\* a three-level scan whose padding held garbage, at the end of its passes
MultiLevelWitness ==
  /\ pc = "sync" /\ op = "scan" /\ num_scans = 3 /\ n = 5
  /\ work[7] = -1 /\ work[0] = INT_MAX /\ work[1] = INT_MAX

\* a returned scan of three elements whose padding slot held garbage
PaddingWitness ==
  /\ Returned /\ op = "scan" /\ n = 3 /\ n_pad = 4 /\ work[3] = -1
  /\ odata.data[2] = 2

\* compact returned -1 for n = -1
DegenerateWitness == Returned /\ op = "compact" /\ n = -1 /\ ret = <<-1>>

\* a returned three-level compaction: timer started, stopped, device drained
TimerWitness ==
  /\ Returned /\ op = "compact" /\ num_scans = 3
  /\ Count(log, "start") = 1 /\ Count(log, "stop") = 1
  /\ Count(log, "kernel") = 12

\* a returned three-level compaction with all of its 19 buffers released
ReleaseWitness ==
  /\ Returned /\ op = "compact" /\ num_scans = 3
  /\ Cardinality(DOMAIN heap) = 19
  /\ \A id \in DOMAIN heap : heap[id].frees = 1

(***************************************************************************)
(* One launch of kernScanInclusive, thread by thread (KernSpec).           *)
(* The launch has one thread per element of every group; a thread is at    *)
(* phase tpc[t], or has left the kernel: Exited because id >= n, Finished  *)
(* after the reshape.                                                      *)
(***************************************************************************)
Exited == -1

Finished(kn, bdim) == NumPhases(kn, bdim)

Threads == 0..(GridOf(k_n, k_bdim) * k_bdim - 1)

Groups == 0..(GridOf(k_n, k_bdim) - 1)

GroupThreads(g) == {t \in Threads : t \div k_bdim = g}

\* the level lengths the drivers launch the kernel with
KernLens == {l \in 1..MaxKernLen : l = NPad(l)}

KernInit ==
  /\ HostIdle
  /\ k_bdim \in BlockSizes
  /\ k_n \in KernLens
  /\ k_in \in [0..(k_n - 1) -> Values]
  /\ k_st = [idata |-> k_in, odata |-> Fill(k_n, 0), rs |-> Fill(k_n, 0)]
  /\ tpc = [t \in Threads |-> 0]
  /\ waiting = {}
  /\ acc_rd = [t \in Threads |-> {}]
  /\ acc_wr = [t \in Threads |-> {}]
  /\ exitedArrive \in (IF k_n < k_bdim THEN BOOLEAN ELSE {TRUE})

\* if (id < n) is false: the thread leaves the kernel at once
ThreadExit(t) ==
  /\ tpc[t] = 0 /\ t \notin waiting
  /\ ~(t < k_n)
  /\ tpc' = [tpc EXCEPT ![t] = Exited]
  /\ UNCHANGED <<k_n, k_bdim, k_in, k_st, waiting, acc_rd, acc_wr,
                 exitedArrive, hostVars>>

\* thread t executes its next phase and, but for the last phase, arrives at
\* the __syncthreads() that follows it
ThreadStep(t) ==
  /\ t < k_n
  /\ tpc[t] \in 0..(NumPhases(k_n, k_bdim) - 1)
  /\ t \notin waiting
  /\ k_st' = ThreadPhase(t, tpc[t], k_n, k_bdim, k_st)
  /\ acc_rd' = [acc_rd EXCEPT ![t] = @ \cup ThreadReads(t, tpc[t], k_n, k_bdim)]
  /\ acc_wr' = [acc_wr EXCEPT ![t] = @ \cup ThreadWrites(t, tpc[t], k_n, k_bdim)]
  /\ tpc' = [tpc EXCEPT ![t] = @ + 1]
  /\ waiting' = (IF tpc[t] < NumPhases(k_n, k_bdim) - 1
                   THEN waiting \cup {t} ELSE waiting)
  /\ UNCHANGED <<k_n, k_bdim, k_in, exitedArrive, hostVars>>

\* __syncthreads() of group g lets its threads go on once all of them have
\* arrived; a thread that has left the kernel counts as arrived only if the
\* hardware counts it so
Barrier(g) ==
  /\ GroupThreads(g) \cap waiting # {}
  /\ \A t \in GroupThreads(g) :
       t \in waiting \/ (exitedArrive /\ tpc[t] = Exited)
  /\ waiting' = waiting \ GroupThreads(g)
  /\ acc_rd' = [t \in Threads |-> IF t \in GroupThreads(g) THEN {}
                                  ELSE acc_rd[t]]
  /\ acc_wr' = [t \in Threads |-> IF t \in GroupThreads(g) THEN {}
                                  ELSE acc_wr[t]]
  /\ UNCHANGED <<k_n, k_bdim, k_in, k_st, tpc, exitedArrive, hostVars>>

KernNext ==
  \/ \E t \in Threads : ThreadExit(t)
  \/ \E t \in Threads : ThreadStep(t)
  \/ \E g \in Groups : Barrier(g)

KernSpec == KernInit /\ [][KernNext]_vars

(***************************************************************************)
(* Properties of the kernel (checked under KernSpec).                      *)
(***************************************************************************)
\* a[lo] + .. + a[hi-1], in 32-bit arithmetic
RECURSIVE SumRange(_, _, _)
SumRange(a, lo, hi) ==
  IF lo >= hi THEN 0 ELSE Add32(SumRange(a, lo, hi - 1), a[hi - 1])

KernDone ==
  /\ k_n >= 1
  /\ \A t \in Threads : tpc[t] \in {Exited, Finished(k_n, k_bdim)}

\* two threads of one group of which one wrote a word the other read or
\* wrote since the group's last barrier
Conflict(t1, t2) ==
  /\ t1 # t2
  /\ t1 \div k_bdim = t2 \div k_bdim
  /\ acc_wr[t1] \cap (acc_rd[t2] \cup acc_wr[t2]) # {}

\* C9: between two barriers no word is written by one thread of a group and
\* read or written by another thread of that group, and a finished launch
\* leaves the arrays the launch with its threads run in the order of their
\* ids leaves
BarrierIntervalsRaceFree ==
  /\ \A t1, t2 \in Threads : ~Conflict(t1, t2)
  /\ KernDone =>
       /\ k_st.idata = kernScanInclusive(k_n, k_bdim, k_in).idata
       /\ k_st.odata = kernScanInclusive(k_n, k_bdim, k_in).odata

\* C10: when the kernel has finished, odata holds the inclusive and idata
\* the exclusive prefix sums of every group's original inputs
KernelLeavesInclusiveAndExclusive ==
  KernDone =>
    \A k \in 0..(k_n - 1) :
      LET first == (k \div k_bdim) * k_bdim IN
      /\ k_st.odata[k] = SumRange(k_in, first, k + 1)
      /\ k_st.idata[k] = SumRange(k_in, first, k)

\* a finished launch of four threads in one group, on inputs that wrap
RaceFreeWitness ==
  /\ KernDone /\ k_n = 4 /\ k_bdim = 4
  /\ k_in[0] = INT_MAX /\ k_in[1] = 1 /\ k_st.odata[3] = INT_MIN

\* a finished launch of two groups of two threads
KernelWitness ==
  /\ KernDone /\ k_n = 4 /\ k_bdim = 2
  /\ k_in[2] = 1 /\ k_in[3] = INT_MAX /\ k_st.odata[3] = INT_MIN
  /\ k_st.idata[3] = 1

(***************************************************************************)
(* Properties of the level hierarchy and of the passes (checked under      *)
(* Spec).                                                                  *)
(***************************************************************************)
\* one iteration of the upward loop that completes: with a the level's
\* input as the in-group scan read it, the last scratch slot of every group
\* holds the sum of the group's part of a, and below the top level that sum
\* is the group's element of the next level's input
GroupTotalsStep ==
  (pc = "up" /\ pc' # "hung") =>
    LET a == IF i = 0 THEN work' ELSE heap[<<InName(op), i>>].data
        l == array_sizes[i]
    IN  \A g \in 0..(GridOf(l, block_size) - 1) :
          LET last  == LastOfGroup(g, l, block_size)
              total == SumRange(a, g * block_size, last + 1)
          IN  /\ heap'[<<"dev_buffer", i>>].data[last] = total
              /\ (i < num_scans - 1) =>
                   heap'[<<InName(op), i + 1>>].data[g] = total

\* C11: at every level, after the in-group scan and before any offset
\* propagation, the last scratch slot of every group holds the sum of the
\* group's original inputs, which is the group's element of the next
\* level's input when there is a next level
GroupTotalsFeedNextLevel == [][GroupTotalsStep]_vars

\* level 0 of a three-level scan has been scanned: the total of its first
\* group, INT_MAX + 1, wrapped around and is element 0 of level 1
GroupTotalsWitness ==
  /\ pc = "up" /\ i = 1 /\ op = "scan" /\ num_scans = 3
  /\ work[0] = INT_MAX /\ work[1] = 1
  /\ heap[<<"dev_buffer", 0>>].data[1] = INT_MIN
  /\ heap[<<"dev_idata", 1>>].data[0] = INT_MIN

\* the positions of ops at which the operation e was put on the stream
OpsAt(e) == {p \in 1..Len(ops) : ops[p] = e}

\* some e was put on the stream before position p
Before(e, p) == \E q \in OpsAt(e) : q < p

\* C12: the operations of the pipeline are ordered across levels. Upward:
\* the in-group scan of level j + 1 comes after the in-group scan, the
\* copy-back and the extraction of level j. Downward: the offset addition
\* into level j comes after the shift of level j + 1, and the shift of
\* level j comes after the offset addition into level j.
PipelineOrderedAcrossLevels ==
  \A p \in 1..Len(ops) :
    LET kind == ops[p][1]
        j    == ops[p][2]
    IN  /\ (kind = "scan" /\ j >= 1) =>
             /\ Before(<<"scan", j - 1>>, p)
             /\ Before(<<"copyback", j - 1>>, p)
             /\ Before(<<"extract", j - 1>>, p)
        /\ (kind = "add") =>
             /\ Before(<<"shift", j + 1>>, p)
             /\ \A q \in OpsAt(<<"scan", j + 1>>) : q < p
        /\ (kind = "shift" /\ j < num_scans - 1) =>
             Before(<<"add", j>>, p)

\* both passes of a three-level call have gone through every level
PipelineWitness ==
  /\ ScanPassDone /\ num_scans = 3
  /\ ops = << <<"scan", 0>>, <<"copyback", 0>>, <<"extract", 0>>,
              <<"scan", 1>>, <<"copyback", 1>>, <<"extract", 1>>,
              <<"scan", 2>>, <<"copyback", 2>>,
              <<"shift", 2>>, <<"add", 1>>, <<"shift", 1>>, <<"add", 0>>,
              <<"shift", 0>> >>

\* the allocation loop has filled the level descriptors
HierarchyBuilt ==
  \/ pc \in {"start", "map", "up", "down", "hung", "sync", "scatter", "stop",
             "copy_out", "count_kept", "free"}
  \/ op = "scan" /\ pc = "copy_in"

Levels == 0..(num_scans - 1)

\* C13: the level hierarchy. The counting loop terminates (num_scans grows
\* with every iteration and is bounded by 1 + log2 of n_pad); once built,
\* level 0 has n_pad elements, every level has ceil(length / group capacity)
\* groups, the next level has one element per group, the top level has one
\* group and every lower level more than one, and the allocation loop fills
\* exactly the num_scans levels that were counted.
HierarchyWellFormed ==
  /\ (pc = "count") =>
       /\ len >= 1 /\ num_scans >= 1
       /\ num_scans + ilog2ceil(len) <= 1 + ilog2ceil(n_pad)
  /\ HierarchyBuilt =>
       /\ num_scans >= 1
       /\ DOMAIN array_sizes = Levels /\ DOMAIN grid_sizes = Levels
       /\ array_sizes[0] = n_pad
       /\ \A j \in Levels :
            /\ grid_sizes[j] * block_size >= array_sizes[j]
            /\ (grid_sizes[j] - 1) * block_size < array_sizes[j]
            /\ (j < num_scans - 1) =>
                 /\ array_sizes[j + 1] = grid_sizes[j]
                 /\ grid_sizes[j] > 1
       /\ grid_sizes[num_scans - 1] = 1

\* three levels of 8, 4 and 2 elements in groups of 2
HierarchyWitness ==
  /\ pc = "up" /\ block_size = 2 /\ n = 5 /\ num_scans = 3
  /\ array_sizes = (0 :> 8) @@ (1 :> 4) @@ (2 :> 2)
  /\ grid_sizes = (0 :> 4) @@ (1 :> 2) @@ (2 :> 1)

IsPow2(x) == \E k \in 0..30 : x = 2^k

\* C14 as stated: every level's length is a power of two and divisible by
\* the group capacity
LevelsPow2AndDivisible ==
  HierarchyBuilt =>
    \A j \in Levels :
      IsPow2(array_sizes[j]) /\ array_sizes[j] % block_size = 0

\* C14: every level's length is a power of two; every level below the top
\* is divisible by the group capacity, and the top level is divisible by it
\* or shorter than it
LevelsPow2TopMayBeShort ==
  HierarchyBuilt =>
    \A j \in Levels :
      /\ IsPow2(array_sizes[j])
      /\ (j < num_scans - 1) => array_sizes[j] % block_size = 0
      /\ (j = num_scans - 1) =>
           (array_sizes[j] % block_size = 0 \/ array_sizes[j] < block_size)

\* 8 elements in groups of 4: the top level has 2 elements, half a group
ShortTopLevelWitness ==
  /\ pc = "down" /\ block_size = 4 /\ num_scans = 2
  /\ array_sizes = (0 :> 8) @@ (1 :> 2)

\* what the level-0 input buffer is to hold when the first in-group scan is
\* launched: the caller's data (scan) or its nonzero mask (compact),
\* followed by zeros up to n_pad
ExpectedLevel0 ==
  ZeroExtend(IF op = "scan" THEN idata ELSE kernMapToBoolean(n, idata),
             n, n_pad)

\* C15: when the first in-group scan is launched, every word of the level-0
\* input buffer has been written, words 0..n-1 hold the caller's data (scan)
\* or its mask (compact) and words n..n_pad-1 hold 0
FirstLaunchSeesZeroExtendedInput ==
  (pc = "up" /\ i = 0) =>
    /\ heap[<<InName(op), 0>>].undef = {}
    /\ heap[<<InName(op), 0>>].data = ExpectedLevel0

(***************************************************************************)
(* The padded length over the whole range of n: the entry of scan and of   *)
(* compact up to the computation of n_pad, for small n and for n around    *)
(* 2^30 and 2^31 - 1.  The input array is left out: these statements do    *)
(* not read it.                                                            *)
(***************************************************************************)
PadInputs ==
  (1..MaxPadN) \cup {2^30 - 1, 2^30, 2^30 + 1, INT_MAX - 1, INT_MAX}

PadInit ==
  /\ op \in {"scan", "compact"}
  /\ n \in PadInputs
  /\ idata = <<>>
  /\ odata = [data |-> <<>>, undef |-> {}]
  /\ block_size \in BlockSizes
  /\ pc = "call"
  /\ n_pad = 0 /\ num_scans = 0 /\ len = 0 /\ i = 0
  /\ array_sizes = <<>> /\ grid_sizes = <<>>
  /\ heap = <<>> /\ log = <<>> /\ compact_len = 0 /\ ret = <<>>
  /\ badAccess = FALSE /\ work = <<>> /\ ops = <<>>
  /\ KernIdle

PadNext == ScanEnter \/ CompactEnter

PadSpec == PadInit /\ [][PadNext]_vars

\* C16: for every n in 1..2^31-1 the padded length, computed in 32-bit
\* signed arithmetic as 1 << ilog2ceil(n), is the smallest power of two that
\* is not smaller than n: it is positive, a power of two, at least n, and
\* its half is less than n
PaddedLengthIsSmallestPowerOfTwo ==
  (pc = "count") =>
    /\ n_pad >= 1
    /\ IsPow2(n_pad)
    /\ n_pad >= n
    /\ n_pad \div 2 < n

(***************************************************************************)
(* Further properties of the kernel (checked under KernSpec).              *)
(***************************************************************************)
\* C17: a launch runs to completion: as long as some thread has neither
\* finished nor left the kernel, some thread can take a step or some
\* barrier can release its group, so no thread waits at a barrier for ever
LaunchRunsToCompletion == KernDone \/ ENABLED KernNext

\* C18: every word a thread reads or writes, in the upsweep, the capture,
\* the downsweep and the reshape, has an index inside the array and inside
\* the index range of the thread's own group
AccessesStayInOwnGroup ==
  \A t \in Threads :
    \A w \in acc_rd[t] \cup acc_wr[t] :
      /\ w[2] \in 0..(k_n - 1)
      /\ w[2] \div k_bdim = t \div k_bdim

\* the last upsweep step of a group of four: thread 0 reaches the group's
\* last slot; and, in another launch, the reshape of thread 2 of the second
\* group of two reads its right neighbour
OwnGroupWitness ==
  \/ /\ k_n = 4 /\ k_bdim = 4
     /\ acc_rd[0] = {<<"idata", 1>>, <<"idata", 3>>}
     /\ acc_wr[0] = {<<"idata", 3>>}
  \/ /\ k_n = 4 /\ k_bdim = 2 /\ tpc[2] = Finished(k_n, k_bdim)
     /\ acc_rd[2] = {<<"idata", 3>>} /\ acc_wr[2] = {<<"odata", 2>>}

(***************************************************************************)
(* Properties of the scatter pass and of the padding (checked under Spec). *)
(***************************************************************************)
\* the source indices the scatter pass keeps
KeptSources == {k \in 0..(n_pad - 1) : heap[<<"dev_bools", 0>>].data[k] = 1}

\* C19: in compact's scatter pass the destination indices of the kept
\* elements increase strictly with the source index, so no two threads write
\* one slot, and all lie in [0, keptCount); once the pass has run, the slots
\* written are exactly 0..keptCount-1
ScatterTargetsDistinctAndDense ==
  (op = "compact" /\ pc \in {"scatter", "sync"}) =>
    LET ind == heap[<<"dev_oIndices", 0>>].data
        keptCount == Cardinality(KeptSources)
    IN  /\ \A j, k \in KeptSources : j < k => ind[j] < ind[k]
        /\ \A k \in KeptSources : ind[k] \in 0..(keptCount - 1)
        /\ (pc = "sync") =>
             heap[<<"dev_odata", 0>>].undef = keptCount..(n_pad - 1)

\* the scatter pass has moved elements 1, 3 and 4 of five to slots 0, 1, 2
ScatterWitness ==
  /\ op = "compact" /\ pc = "sync" /\ n = 5
  /\ KeptSources = {1, 3, 4}
  /\ heap[<<"dev_oIndices", 0>>].data[1] = 0
  /\ heap[<<"dev_oIndices", 0>>].data[3] = 1
  /\ heap[<<"dev_oIndices", 0>>].data[4] = 2
  /\ heap[<<"dev_odata", 0>>].data[2] = idata[4]
  /\ heap[<<"dev_odata", 0>>].undef = 3..7

\* the level-0 array of a run of scan whose padding words hold g
WithPadding(g) ==
  [k \in 0..(n_pad - 1) |-> IF k < n THEN idata[k] ELSE g[k]]

\* C20: the n elements scan returns do not depend on what the level-0
\* padding words n..n_pad-1 hold: the run that returned and the run on the
\* same n and input with any other padding contents give the same
\* odata[0..n-1], whatever the number of levels
OutputIndependentOfPadding ==
  (Returned /\ op = "scan" /\ n >= 1) =>
    \A g \in [n..(n_pad - 1) -> Garbage] :
      odata.data = Prefix(ScanLevels(WithPadding(g), n_pad, block_size), n)

\* a three-level scan of five ones has returned; its padding held -1, 0, -1
PaddingIndependenceWitness ==
  /\ Returned /\ op = "scan" /\ n = 5 /\ num_scans = 3
  /\ work[5] = -1 /\ work[6] = 0 /\ work[7] = -1
  /\ \A k \in 0..4 : idata[k] = 1 /\ odata.data[k] = k

====
